---- MODULE Spec2Model ----
(***************************************************************************)
(* State-machine model of vm_manager.py: the PathStore (sqlite table       *)
(* "paths"), the VMManager operations and the command dispatch of main().  *)
(* External programs (virsh, qemu-img) are the environment: every exit     *)
(* status and every output they can give is an input of the action that    *)
(* runs them.                                                              *)
(***************************************************************************)
EXTENDS Integers, Sequences, FiniteSets, TLC

VARIABLES
    clock,      \* the wall clock in whole seconds (CURRENT_TIMESTAMP)
    paths,      \* table "paths": the set of its rows [key, value, updated_at]
    setOrder,   \* SpecStore's record of its set calls: each key's latest <<key,
                \* value>>, the most recently set first
    lastOk,     \* history: direction -> paths of its last successful conversion
    hosts,      \* content of the hosts file (NoFile when it does not exist)
    netplan,    \* [exists, files]: the netplan directory and its files
    ovaFiles,   \* the archives written by tarfile: absolute path -> archive
    inv         \* the last call or invocation: its inputs and what it did

vars == <<clock, paths, setOrder, lastOk, hosts, netplan, ovaFiles, inv>>

\* ------------------------------------------------------------------ bounds

MaxClock == 2

MainMaxClock == 1

\* ------------------------------------------------------------------- text
\* A text is a sequence of one-character strings.

NL == "\n"

IsSpace(c) == c \in {" ", "\n", "\t"}

LowerChar(c) ==
    CASE c = "R" -> "r" [] c = "U" -> "u" [] c = "N" -> "n"
      [] c = "I" -> "i" [] c = "G" -> "g" [] c = "A" -> "a"
      [] c = "B" -> "b" [] OTHER -> c

Lower(s) == [i \in 1..Len(s) |-> LowerChar(s[i])]

RECURSIVE LStrip(_)
LStrip(s) == IF s # <<>> /\ IsSpace(Head(s)) THEN LStrip(Tail(s)) ELSE s

RECURSIVE RStrip(_)
RStrip(s) ==
    IF s # <<>> /\ IsSpace(s[Len(s)]) THEN RStrip(SubSeq(s, 1, Len(s) - 1)) ELSE s

Strip(s) == RStrip(LStrip(s))

\* Python's "needle in hay" on strings.
Contains(hay, needle) ==
    \E i \in 0..(Len(hay) - Len(needle)) :
        SubSeq(hay, i + 1, i + Len(needle)) = needle

\* str.splitlines(): the pieces between line breaks, no empty last piece.
RECURSIVE SplitFrom(_, _, _)
SplitFrom(s, i, cur) ==
    IF i > Len(s) THEN (IF cur = <<>> THEN <<>> ELSE <<cur>>)
    ELSE IF s[i] = NL THEN <<cur>> \o SplitFrom(s, i + 1, <<>>)
    ELSE SplitFrom(s, i + 1, Append(cur, s[i]))

SplitLines(s) == SplitFrom(s, 1, <<>>)

\* ------------------------------------------------------------- PathStore

Keys == {"last_ova_input", "last_qcow2_output", "last_qcow2_input",
         "last_ova_output", "last_hosts_update", "last_netplan_file"}

None == "None"

\* CREATE TABLE paths: no rows.
EmptyStore == {}

Row(key, value, updated_at) ==
    [key |-> key, value |-> value, updated_at |-> updated_at]

HasKey(store, key) == \E r \in store : r.key = key

\* Mutant: a plain INSERT, the conflict on the key not handled.
PathStore_set_insert(store, key, value, now) ==
    store \cup {Row(key, value, now)}

\* INSERT INTO paths (key, value, updated_at) VALUES (?, ?, CURRENT_TIMESTAMP)
\* ON CONFLICT(key) DO UPDATE SET value=excluded.value, updated_at=...
PathStore_set(store, key, value, now) ==
    {r \in store : r.key # key} \cup {Row(key, value, now)}

\* SELECT value FROM paths WHERE key=? ... fetchone(); None without a row.
PathStore_get(store, key) ==
    IF HasKey(store, key)
    THEN (CHOOSE r \in store : r.key = key).value
    ELSE None

\* The orders ORDER BY updated_at DESC allows for the rows S: rows of equal
\* updated_at come in an order SQL leaves open.
RECURSIVE OrdersDesc(_)
OrdersDesc(S) ==
    IF S = {} THEN {<<>>}
    ELSE UNION {
        {<<r>> \o rest : rest \in OrdersDesc(S \ {r})} :
        r \in {x \in S : \A y \in S : x.updated_at >= y.updated_at}}

\* SELECT key, value, updated_at FROM paths ORDER BY updated_at DESC: the
\* set of listings the query may return.
PathStore_all(store) ==
    {[i \in 1..Len(o) |-> <<o[i].key, o[i].value, o[i].updated_at>>] :
        o \in OrdersDesc(store)}

\* The record of the set calls made: <<key, value>> of each key's latest
\* set, the most recently set key first.
RECURSIVE Without(_, _)
Without(h, k) ==
    IF h = <<>> THEN <<>>
    ELSE IF Head(h)[1] = k THEN Without(Tail(h), k)
    ELSE <<Head(h)>> \o Without(Tail(h), k)

Touch(h, key, value) == <<<<key, value>>>> \o Without(h, key)

\* ------------------------------------------------------------ filesystem

\* A text file: whether it exists, and its text.
NoFile == [exists |-> FALSE, text |-> <<>>]

File(text) == [exists |-> TRUE, text |-> text]

HostsPath == "/etc/hosts"

\* ------------------------------------------------------------------ Init

Directions == {"ova-to-qcow2", "qcow2-to-ova"}

NoConv == [none |-> TRUE]

\* No invocation of main is running.
Idle == [op |-> "none"]

\* Before the first invocation: no table rows, no netplan directory, no
\* archive written; h is the hosts file of the machine.
Start(h) ==
    /\ clock = 0
    /\ paths = EmptyStore
    /\ setOrder = <<>>
    /\ lastOk = [d \in Directions |-> NoConv]
    /\ hosts = h
    /\ netplan = [exists |-> FALSE, files |-> <<>>]
    /\ ovaFiles = <<>>
    /\ inv = Idle

Init == Start(NoFile)

\* The process of one invocation has ended; the next may start.
Exit ==
    /\ inv # Idle
    /\ inv' = Idle
    /\ UNCHANGED <<clock, paths, setOrder, lastOk, hosts, netplan, ovaFiles>>

\* A second passes.
Tick(limit) ==
    /\ clock < limit
    /\ clock' = clock + 1
    /\ UNCHANGED <<paths, setOrder, lastOk, hosts, netplan, ovaFiles, inv>>

\* ------------------------------------------------ PathStore, called directly

StoreKeys == {"last_ova_input", "last_qcow2_output", "last_hosts_update"}

StoreValues == {"/data/a", "/data/b"}

StoreSet(k, v) ==
    /\ paths' = PathStore_set(paths, k, v, clock)
    /\ setOrder' = Touch(setOrder, k, v)
    /\ inv' = [op |-> "set", key |-> k, value |-> v,
               previous |-> PathStore_get(paths, k)]
    /\ UNCHANGED <<clock, lastOk, hosts, netplan, ovaFiles>>

StoreGet(k) ==
    /\ inv' = [op |-> "get", key |-> k, result |-> PathStore_get(paths, k)]
    /\ UNCHANGED <<clock, paths, setOrder, lastOk, hosts, netplan, ovaFiles>>

StoreAll ==
    /\ \E l \in PathStore_all(paths) : inv' = [op |-> "all", result |-> l]
    /\ UNCHANGED <<clock, paths, setOrder, lastOk, hosts, netplan, ovaFiles>>

StoreTick == Tick(MaxClock)

NextStore ==
    \/ \E k \in StoreKeys, v \in StoreValues : StoreSet(k, v)
    \/ \E k \in StoreKeys : StoreGet(k)
    \/ StoreAll
    \/ StoreTick

SpecStore == Init /\ [][NextStore]_vars

\* --------------------------------------------------- external commands

\* One external command that was run: its argument list and exit status.
Cmd(argv, rc) == [argv |-> argv, rc |-> rc]

ExitCodes == {0, 1}

\* What an operation raised: "none", "CommandError" (_run saw a nonzero exit
\* status, or an operation refused its input) or "other" (any other
\* exception, which main does not catch).
Raised(failed) == IF failed THEN "CommandError" ELSE "none"

\* main: 0 when the operation returns, 1 from "except CommandError"; an
\* exception main does not catch ends the interpreter with status 1.
main_exit(raised) == IF raised = "none" THEN 0 ELSE 1

\* ------------------------------------------------------------ delete_vm

RunningText == <<"r", "u", "n", "n", "i", "n", "g">>

\* What "virsh domstate" may print, each with whether the text holds the
\* word "running" in any letter case (set down by hand).
DomstateTexts == {
    [stdout |-> <<"r","u","n","n","i","n","g","\n","\n">>, running |-> TRUE],
    [stdout |-> <<"R","u","n","n","i","n","g","\n">>,     running |-> TRUE],
    [stdout |-> <<" ","R","U","N","N","I","N","G">>,       running |-> TRUE],
    [stdout |-> <<"n","o","t"," ","r","u","n","n","i","n","g","\n">>,
                                                           running |-> TRUE],
    [stdout |-> <<"s","h","u","t"," ","o","f","f","\n">>, running |-> FALSE],
    [stdout |-> <<"p","a","u","s","e","d","\n">>,         running |-> FALSE],
    [stdout |-> <<"r","u","n","n","i","n","\n","g">>,     running |-> FALSE],
    [stdout |-> <<>>,                                      running |-> FALSE]}

DomstateOutcomes ==
    {[rc |-> 0, stdout |-> t.stdout, running |-> t.running] : t \in DomstateTexts}
    \cup {[rc |-> 1, stdout |-> <<>>, running |-> FALSE]}

\* Mutant: no try/except around the state query and the stop command.
delete_vm_notry(name, remove_storage, q, destroyRc, undefineRc) ==
    LET query == Cmd(<<"virsh", "domstate", name>>, q.rc)
        stop  == Cmd(<<"virsh", "destroy", name>>, destroyRc)
        state == Lower(Strip(q.stdout))
        cmd   == <<"virsh", "undefine", name, "--nvram">>
                 \o (IF remove_storage THEN <<"--remove-all-storage">> ELSE <<>>)
    IN  IF q.rc # 0 THEN [cmds |-> <<query>>, raised |-> "CommandError"]
        ELSE IF Contains(state, RunningText) /\ destroyRc # 0
        THEN [cmds |-> <<query, stop>>, raised |-> "CommandError"]
        ELSE [cmds |-> (IF Contains(state, RunningText)
                        THEN <<query, stop>> ELSE <<query>>)
                       \o <<Cmd(cmd, undefineRc)>>,
              raised |-> Raised(undefineRc # 0)]

\* delete_vm: q is the outcome of "virsh domstate", destroyRc and undefineRc
\* the exit statuses "virsh destroy" and "virsh undefine" would give.
delete_vm(name, remove_storage, q, destroyRc, undefineRc) ==
    LET query == Cmd(<<"virsh", "domstate", name>>, q.rc)
        stop  == Cmd(<<"virsh", "destroy", name>>, destroyRc)
        state == Lower(Strip(q.stdout))
        tried == IF q.rc = 0 /\ Contains(state, RunningText)
                 THEN <<query, stop>> ELSE <<query>>
        cmd   == <<"virsh", "undefine", name, "--nvram">>
                 \o (IF remove_storage THEN <<"--remove-all-storage">> ELSE <<>>)
    IN  [cmds |-> tried \o <<Cmd(cmd, undefineRc)>>,
         raised |-> Raised(undefineRc # 0)]

\* main, command "delete".
Delete(name, remove_storage, q, destroyRc, undefineRc) ==
    LET r == delete_vm(name, remove_storage, q, destroyRc, undefineRc) IN
    /\ inv = Idle
    /\ inv' = [op |-> "delete", name |-> name, remove_storage |-> remove_storage,
               query |-> q, cmds |-> r.cmds, raised |-> r.raised,
               exit |-> main_exit(r.raised)]
    /\ UNCHANGED <<clock, paths, setOrder, lastOk, hosts, netplan, ovaFiles>>

VmNames == {"vm1", "vm2"}

NextDelete ==
    \/ \E name \in VmNames, rs \in BOOLEAN, q \in DomstateOutcomes,
          d \in ExitCodes, u \in ExitCodes : Delete(name, rs, q, d, u)
    \/ Exit

SpecDelete == Init /\ [][NextDelete]_vars

\* ------------------------------------------------- list_vms, os_details

\* list_vms: "virsh list --all --name", then "virsh dominfo" per name; the
\* first failing command raises.
RECURSIVE RunEach(_, _)
RunEach(names, rcs) ==
    IF names = <<>> THEN <<>>
    ELSE <<Cmd(<<"virsh", "dominfo", Head(names)>>, Head(rcs))>>
         \o (IF Head(rcs) # 0 THEN <<>> ELSE RunEach(Tail(names), Tail(rcs)))

list_vms(listRc, names, rcs) ==
    LET first == Cmd(<<"virsh", "list", "--all", "--name">>, listRc)
        rest  == IF listRc # 0 THEN <<>> ELSE RunEach(names, rcs)
        cmds  == <<first>> \o rest
    IN  [cmds |-> cmds, raised |-> Raised(\E i \in 1..Len(cmds) : cmds[i].rc # 0)]

\* main, command "list".
List(listRc, names, rcs) ==
    LET r == list_vms(listRc, names, rcs) IN
    /\ inv = Idle
    /\ inv' = [op |-> "list", cmds |-> r.cmds, raised |-> r.raised,
               exit |-> main_exit(r.raised)]
    /\ UNCHANGED <<clock, paths, setOrder, lastOk, hosts, netplan, ovaFiles>>

\* os_details: "virsh dominfo" then "virsh dumpxml".
os_details(name, infoRc, dumpRc) ==
    LET first == Cmd(<<"virsh", "dominfo", name>>, infoRc)
        cmds  == IF infoRc # 0 THEN <<first>>
                 ELSE <<first, Cmd(<<"virsh", "dumpxml", name>>, dumpRc)>>
    IN  [cmds |-> cmds, raised |-> Raised(infoRc # 0 \/ dumpRc # 0)]

\* main, command "os".
Os(name, infoRc, dumpRc) ==
    LET r == os_details(name, infoRc, dumpRc) IN
    /\ inv = Idle
    /\ inv' = [op |-> "os", cmds |-> r.cmds, raised |-> r.raised,
               exit |-> main_exit(r.raised)]
    /\ UNCHANGED <<clock, paths, setOrder, lastOk, hosts, netplan, ovaFiles>>

\* -------------------------------------------------- validate_vm_config

MaxText == 2

TextChars == {"\n", " ", "a", "b"}

Texts == UNION {[1..n -> TextChars] : n \in 0..MaxText}

\* [line.strip() for line in text.splitlines() if line.strip()]
RECURSIVE StrippedNonBlank(_)
StrippedNonBlank(lines) ==
    IF lines = <<>> THEN <<>>
    ELSE (IF Strip(Head(lines)) # <<>> THEN <<Strip(Head(lines))>> ELSE <<>>)
         \o StrippedNonBlank(Tail(lines))

\* validate_vm_config: "virsh dumpxml" through _run, then the validator
\* through subprocess.run, whose exit status v.rc raises nothing.
validate_vm_config(name, dumpRc, v) ==
    LET dump == Cmd(<<"virsh", "dumpxml", name>>, dumpRc)
        val  == Cmd(<<"virsh", "domxml-validate", name>>, v.rc)
    IN  IF dumpRc # 0
        THEN [cmds |-> <<dump>>, raised |-> "CommandError", result |-> <<>>]
        ELSE [cmds |-> <<dump, val>>, raised |-> "none",
              result |-> IF v.rc = 0 THEN <<>>
                         ELSE StrippedNonBlank(
                                SplitLines(v.stderr \o <<NL>> \o v.stdout))]

\* main, command "validate".
Validate(name, dumpRc, v) ==
    LET r == validate_vm_config(name, dumpRc, v) IN
    /\ inv = Idle
    /\ inv' = [op |-> "validate", name |-> name, dumpRc |-> dumpRc,
               validator |-> IF dumpRc = 0 THEN v ELSE None,
               cmds |-> r.cmds, raised |-> r.raised, result |-> r.result,
               exit |-> main_exit(r.raised)]
    /\ UNCHANGED <<clock, paths, setOrder, lastOk, hosts, netplan, ovaFiles>>

NextValidate ==
    \/ \E name \in {"vm1"}, dumpRc \in ExitCodes, rc \in ExitCodes,
          out \in Texts, err \in Texts :
           Validate(name, dumpRc, [rc |-> rc, stdout |-> out, stderr |-> err])
    \/ Exit

SpecValidate == Init /\ [][NextValidate]_vars

\* ------------------------------------------------------- path arguments

\* Path.resolve(): a relative path is taken under the working directory,
\* an absolute one stays.
Resolve(p) ==
    CASE p = "in.ova"    -> "/cwd/in.ova"
      [] p = "out.qcow2" -> "/cwd/out.qcow2"
      [] p = "in.qcow2"  -> "/cwd/in.qcow2"
      [] p = "out.ova"   -> "/cwd/out.ova"
      [] OTHER -> p

\* Mutant: the saved value is never looked up.
resolve_with_saved_nolookup(value, key, store) ==
    IF value # None /\ value # ""
    THEN [raised |-> "none", path |-> value]
    ELSE [raised |-> "CommandError", path |-> None]

\* resolve_with_saved: "if value" and "if not saved" are Python truth
\* tests: None and the empty string both fail them.
resolve_with_saved(value, key, store) ==
    IF value # None /\ value # ""
    THEN [raised |-> "none", path |-> value]
    ELSE LET saved == PathStore_get(store, key) IN
         IF saved = None \/ saved = ""
         THEN [raised |-> "CommandError", path |-> None]
         ELSE [raised |-> "none", path |-> saved]

\* The set calls an operation made, <<key, value, second>> each, applied to
\* the table.
RECURSIVE ApplySets(_, _)
ApplySets(store, sets) ==
    IF sets = <<>> THEN store
    ELSE ApplySets(PathStore_set(store, Head(sets)[1], Head(sets)[2], Head(sets)[3]),
                   Tail(sets))

\* --------------------------------------------------------- ova_to_qcow2

\* A member of the input archive: nested when its name has a directory part.
Entry(nested, stem, ext) == [nested |-> nested, stem |-> stem, ext |-> ext]

\* tarfile.open fails on a missing file and on one that is no tar archive;
\* neither exception is a CommandError.
Unreadable == {Entry(FALSE, "unreadable", "")}

\* tmp.glob("*.<ext>"): the files of the extraction directory itself.
Glob(archive, ext) == {f \in archive : ~f.nested /\ f.ext = ext}

\* The files candidates[0] may be: glob gives each group in directory order.
FirstCandidates(archive) ==
    IF Glob(archive, "vmdk") # {} THEN Glob(archive, "vmdk")
    ELSE IF Glob(archive, "qcow2") # {} THEN Glob(archive, "qcow2")
    ELSE Glob(archive, "img")

NoEntry == Entry(FALSE, "", "")

\* Mutant: the paths are recorded before the converter has run.
ova_to_qcow2_early(ova_path, output_qcow2, archive, src, convertRc, now, later) ==
    LET convert == Cmd(<<"qemu-img", "convert", "-O", "qcow2", src, output_qcow2>>,
                       convertRc)
        sets == << <<"last_ova_input", Resolve(ova_path), now>>,
                   <<"last_qcow2_output", Resolve(output_qcow2), later>> >>
    IN  IF archive = Unreadable
        THEN [raised |-> "other", cmds |-> <<>>, sets |-> <<>>]
        ELSE IF FirstCandidates(archive) = {}
        THEN [raised |-> "CommandError", cmds |-> <<>>, sets |-> <<>>]
        ELSE [raised |-> Raised(convertRc # 0), cmds |-> <<convert>>,
              sets |-> sets]

\* ova_to_qcow2: src is candidates[0], now and later the seconds of the two
\* set calls.
ova_to_qcow2(ova_path, output_qcow2, archive, src, convertRc, now, later) ==
    LET convert == Cmd(<<"qemu-img", "convert", "-O", "qcow2", src, output_qcow2>>,
                       convertRc)
    IN  IF archive = Unreadable
        THEN [raised |-> "other", cmds |-> <<>>, sets |-> <<>>]
        ELSE IF FirstCandidates(archive) = {}
        THEN [raised |-> "CommandError", cmds |-> <<>>, sets |-> <<>>]
        ELSE IF convertRc # 0
        THEN [raised |-> "CommandError", cmds |-> <<convert>>, sets |-> <<>>]
        ELSE [raised |-> "none", cmds |-> <<convert>>,
              sets |-> << <<"last_ova_input", Resolve(ova_path), now>>,
                          <<"last_qcow2_output", Resolve(output_qcow2), later>> >>]

\* main, command "ova-to-qcow2"; dt is 1 when a second passes between the
\* two set calls.
OvaToQcow2(ova, out, archive, src, convertRc, dt) ==
    LET a == resolve_with_saved(ova, "last_ova_input", paths)
        b == resolve_with_saved(out, "last_qcow2_output", paths)
        r == IF a.raised # "none" \/ b.raised # "none"
             THEN [raised |-> "CommandError", cmds |-> <<>>, sets |-> <<>>]
             ELSE ova_to_qcow2(a.path, b.path, archive, src, convertRc,
                               clock, clock + dt)
        done == r.raised = "none"
    IN  /\ inv = Idle
        /\ paths' = ApplySets(paths, r.sets)
        /\ clock' = IF done THEN clock + dt ELSE clock
        /\ lastOk' = IF done
                     THEN [lastOk EXCEPT !["ova-to-qcow2"] =
                              [in |-> Resolve(a.path), out |-> Resolve(b.path)]]
                     ELSE lastOk
        /\ inv' = [op |-> "ova-to-qcow2", in |-> ova, out |-> out,
                   in_path |-> a.path,
                   out_path |-> IF a.raised = "none" THEN b.path ELSE None,
                   archive |-> archive, cmds |-> r.cmds, raised |-> r.raised,
                   exit |-> main_exit(r.raised)]
        /\ UNCHANGED <<setOrder, hosts, netplan, ovaFiles>>

\* --------------------------------------------------------- qcow2_to_ova

\* dict.get(key, default)
DictGet(d, key, default) == IF key \in DOMAIN d THEN d[key] ELSE default

\* The name of a file made from the logical name: f"{vm_name}.<ext>".
FileName(vm_name, ext) == [stem |-> vm_name, ext |-> ext]

\* The descriptor text, by the values the template is filled with.
Ovf(vm_name, vmdk_name, size, disk_id, capacity) ==
    [files |-> <<[id |-> "file1", href |-> vmdk_name, size |-> size]>>,
     disks |-> <<[diskId |-> disk_id, fileRef |-> "file1",
                  capacity |-> capacity, format |-> "streamOptimized"]>>,
     system |-> vm_name]

\* Mutant: the disk is added to the archive before the descriptor.
TarMembers_diskfirst(ovf_name, ovf, vmdk_name, vmdkSize) ==
    <<[name |-> vmdk_name, content |-> <<>>, size |-> vmdkSize],
      [name |-> ovf_name, content |-> ovf, size |-> 0]>>

\* tarfile.open(output_ova, "w"): tar.add of the descriptor, then of the disk.
TarMembers(ovf_name, ovf, vmdk_name, vmdkSize) ==
    <<[name |-> ovf_name, content |-> ovf, size |-> 0],
      [name |-> vmdk_name, content |-> <<>>, size |-> vmdkSize]>>

\* qcow2_to_ova: info is the JSON object "qemu-img info" prints, vmdkSize
\* the st_size of the converted disk, disk_id the uuid4 drawn.
qcow2_to_ova(qcow2_path, output_ova, vm_name, convertRc, infoRc, info, vmdkSize, disk_id, now, later) ==
    LET vmdk_name == FileName(vm_name, "vmdk")
        ovf_name  == FileName(vm_name, "ovf")
        convert == Cmd(<<"qemu-img", "convert", "-O", "vmdk", "-o",
                         "subformat=streamOptimized", qcow2_path, vmdk_name>>,
                       convertRc)
        query == Cmd(<<"qemu-img", "info", "--output=json", qcow2_path>>, infoRc)
        capacity == DictGet(info, "virtual-size", 0)
        ovf == Ovf(vm_name, vmdk_name, vmdkSize, disk_id, capacity)
    IN  IF convertRc # 0
        THEN [raised |-> "CommandError", cmds |-> <<convert>>, sets |-> <<>>,
              tar |-> <<>>]
        ELSE IF infoRc # 0
        THEN [raised |-> "CommandError", cmds |-> <<convert, query>>,
              sets |-> <<>>, tar |-> <<>>]
        ELSE [raised |-> "none", cmds |-> <<convert, query>>,
              sets |-> << <<"last_qcow2_input", Resolve(qcow2_path), now>>,
                          <<"last_ova_output", Resolve(output_ova), later>> >>,
              tar |-> TarMembers(ovf_name, ovf, vmdk_name, vmdkSize)]

\* main, command "qcow2-to-ova".
Qcow2ToOva(qcow2, out, vm_name, convertRc, infoRc, info, vmdkSize, disk_id, dt) ==
    LET a == resolve_with_saved(qcow2, "last_qcow2_input", paths)
        b == resolve_with_saved(out, "last_ova_output", paths)
        r == IF a.raised # "none" \/ b.raised # "none"
             THEN [raised |-> "CommandError", cmds |-> <<>>, sets |-> <<>>,
                   tar |-> <<>>]
             ELSE qcow2_to_ova(a.path, b.path, vm_name, convertRc, infoRc, info,
                               vmdkSize, disk_id, clock, clock + dt)
        done == r.raised = "none"
    IN  /\ inv = Idle
        /\ paths' = ApplySets(paths, r.sets)
        /\ clock' = IF done THEN clock + dt ELSE clock
        /\ lastOk' = IF done
                     THEN [lastOk EXCEPT !["qcow2-to-ova"] =
                              [in |-> Resolve(a.path), out |-> Resolve(b.path)]]
                     ELSE lastOk
        /\ ovaFiles' = IF done THEN (Resolve(b.path) :> r.tar) @@ ovaFiles
                       ELSE ovaFiles
        /\ inv' = [op |-> "qcow2-to-ova", in |-> qcow2, out |-> out,
                   name |-> vm_name,
                   in_path |-> a.path,
                   out_path |-> IF a.raised = "none" THEN b.path ELSE None,
                   info |-> info, vmdkSize |-> vmdkSize,
                   cmds |-> r.cmds, raised |-> r.raised,
                   exit |-> main_exit(r.raised)]
        /\ UNCHANGED <<setOrder, hosts, netplan>>

\* --------------------------------------------------- add_network_compat

\* f"ens{index}" and f"enp0{index}".
IfName(prefix, index) == [prefix |-> prefix, index |-> index]

\* The hosts file is a sequence of pieces of text: a line break, or the text
\* of a line (its fixed words, the names written into it).  No line of the
\* block is part of another line of a block, so a block is found in the file
\* ("snippet in text") exactly where its pieces stand in a row.
Piece(words, names) == [words |-> words, names |-> names]

Br == Piece("\n", <<>>)

TextLine(t) == Piece(t, <<>>)

\* The alias block: textwrap.dedent(...).strip() + "\n".
Snippet(mode, index) ==
    LET interface_name == IfName("ens", index)
        legacy_name == IfName("enp0", index)
    IN  <<Piece("# vm_manager compat", <<IfName(mode, 0)>>), Br,
          Piece("# Compatibilidad OVA/QCOW2: alias",
                <<legacy_name, interface_name>>), Br,
          Piece("127.0.1.1", <<legacy_name>>), Br,
          Piece("127.0.1.1", <<interface_name>>), Br>>

\* read_text(), and what open("a") appends to (a file that does not exist
\* is created empty).
FileText(file) == file.text

\* The --dns argument: not given, or the pieces of its text between the
\* commas (str.split gives one empty piece for the empty text).
NoDns == [given |-> FALSE, pieces |-> <<>>]

Dns(pieces) == [given |-> TRUE, pieces |-> pieces]

\* [x.strip() for x in (dns or "").split(",") if x.strip()]
DnsList(dns) == StrippedNonBlank(IF dns.given THEN dns.pieces ELSE << <<>> >>)

\* The netplan document, by the values the template is filled with.
NetplanDoc(interface_name, legacy_name, mode, ip_cidr, gateway, dns_list) ==
    [ethernets |-> <<
        IF mode = "dhcp"
        THEN [name |-> interface_name, dhcp4 |-> TRUE, addresses |-> <<>>,
              via |-> None, nameservers |-> <<>>, optional |-> FALSE]
        ELSE [name |-> interface_name, dhcp4 |-> FALSE, addresses |-> <<ip_cidr>>,
              via |-> gateway, nameservers |-> dns_list, optional |-> FALSE],
        [name |-> legacy_name, dhcp4 |-> TRUE, addresses |-> <<>>,
         via |-> None, nameservers |-> <<>>, optional |-> TRUE]>>]

\* netplan_dir / f"99-vmcompat-{secrets.token_hex(3)}.yaml"
NetplanFile(token) ==
    CASE token = "a1b2c3" -> "/etc/netplan/99-vmcompat-a1b2c3.yaml"
      [] token = "d4e5f6" -> "/etc/netplan/99-vmcompat-d4e5f6.yaml"
      [] OTHER -> "/etc/netplan/99-vmcompat-000000.yaml"

\* Mutant: the file is compared with the block instead of searched for it.
AlreadyPatched_equal(file, snippet) ==
    file.exists /\ FileText(file) = snippet

\* hosts_path.exists() and snippet in hosts_path.read_text(...)
AlreadyPatched(file, snippet) ==
    file.exists /\ Contains(FileText(file), snippet)

\* Mutant: "and" for "or": refused only when both are missing.
StaticArgsMissing_both(mode, ip_cidr, gateway) ==
    mode # "dhcp" /\ (ip_cidr = None \/ ip_cidr = "")
                  /\ (gateway = None \/ gateway = "")

\* mode is not "dhcp" and "not ip_cidr or not gateway" (Python truth tests).
StaticArgsMissing(mode, ip_cidr, gateway) ==
    mode # "dhcp" /\ (ip_cidr = None \/ ip_cidr = ""
                      \/ gateway = None \/ gateway = "")

\* add_network_compat on the hosts file `file` and the netplan directory
\* `np`; token is the random suffix drawn.  Gives what was raised, the value
\* returned, the files afterwards and the set calls made.
add_network_compat(distro, mode, index, ip_cidr, gateway, dns, token, file, np, now) ==
    LET interface_name == IfName("ens", index)
        legacy_name == IfName("enp0", index)
        snippet == Snippet(mode, index)
        out == NetplanFile(token)
        made == [exists |-> TRUE, files |-> np.files]
        dns_list == DnsList(dns)
        content == NetplanDoc(interface_name, legacy_name, mode, ip_cidr,
                              gateway, dns_list)
    IN  IF distro = "debian"
        THEN IF AlreadyPatched(file, snippet)
             THEN [raised |-> "none", result |-> HostsPath, hosts |-> file,
                   netplan |-> np, sets |-> <<>>]
             ELSE [raised |-> "none", result |-> HostsPath,
                   hosts |-> File(FileText(file) \o <<Br>> \o snippet),
                   netplan |-> np,
                   sets |-> << <<"last_hosts_update", HostsPath, now>> >>]
        ELSE IF StaticArgsMissing(mode, ip_cidr, gateway)
        THEN [raised |-> "CommandError", result |-> None, hosts |-> file,
              netplan |-> made, sets |-> <<>>]
        ELSE [raised |-> "none", result |-> out, hosts |-> file,
              netplan |-> [exists |-> TRUE,
                           files |-> (token :> content) @@ np.files],
              sets |-> << <<"last_netplan_file", out, now>> >>]

\* main, command "network-compat".
NetworkCompat(distro, mode, index, ip_cidr, gateway, dns, token) ==
    LET r == add_network_compat(distro, mode, index, ip_cidr, gateway, dns,
                                token, hosts, netplan, clock)
    IN  /\ inv = Idle
        /\ hosts' = r.hosts
        /\ netplan' = r.netplan
        /\ paths' = ApplySets(paths, r.sets)
        /\ inv' = [op |-> "network-compat", distro |-> distro, mode |-> mode,
                   index |-> index, ip_cidr |-> ip_cidr, gateway |-> gateway,
                   dns |-> dns, raised |-> r.raised, result |-> r.result,
                   exit |-> main_exit(r.raised)]
        /\ UNCHANGED <<clock, setOrder, lastOk, ovaFiles>>

\* ---------------------------------------------------------------- paths

\* main, command "paths": prints store.all(), which gave listing l.
Paths(l) ==
    /\ inv = Idle
    /\ l \in PathStore_all(paths)
    /\ inv' = [op |-> "paths", result |-> l, raised |-> "none",
               exit |-> main_exit("none")]
    /\ UNCHANGED <<clock, paths, setOrder, lastOk, hosts, netplan, ovaFiles>>

\* ------------------------------------------------------- main, all commands

OvaArgs == {None, "", "in.ova", "/img/in.ova"}

Qcow2OutArgs == {None, "out.qcow2", "/img/out.qcow2"}

Qcow2Args == {None, "", "in.qcow2", "/img/in.qcow2"}

OvaOutArgs == {None, "out.ova", "/img/out.ova"}

MainArchives == {Unreadable, {}, {Entry(FALSE, "disk", "vmdk")}}

\* Whether a second passes between the two set calls of a conversion.
Ticks(limit) == IF clock < limit THEN {0, 1} ELSE {0}

\* candidates[0] of an archive (NoEntry when there are no candidates).
Sources(archive) ==
    IF FirstCandidates(archive) = {} THEN {NoEntry} ELSE FirstCandidates(archive)

\* A second passes between two invocations.
MainTick == inv = Idle /\ Tick(MainMaxClock)

Next ==
    \/ \E listRc \in ExitCodes, names \in {<<>>, <<"vm1">>}, rc \in ExitCodes :
          List(listRc, names, <<rc>>)
    \/ \E rs \in BOOLEAN, u \in ExitCodes,
          q \in {o \in DomstateOutcomes : o.rc = 1 \/ Len(o.stdout) = 8} :
          Delete("vm1", rs, q, 1, u)
    \/ \E infoRc \in ExitCodes, dumpRc \in ExitCodes : Os("vm1", infoRc, dumpRc)
    \/ \E dumpRc \in ExitCodes, rc \in ExitCodes, err \in {<<>>, <<"a">>} :
          Validate("vm1", dumpRc, [rc |-> rc, stdout |-> <<>>, stderr |-> err])
    \/ \E ova \in {None, "in.ova"}, out \in {None, "out.qcow2"},
          archive \in MainArchives, convertRc \in ExitCodes,
          dt \in Ticks(MainMaxClock) :
          \E src \in Sources(archive) :
             OvaToQcow2(ova, out, archive, src, convertRc, dt)
    \/ \E qcow2 \in {None, "in.qcow2"}, out \in {None, "out.ova"},
          convertRc \in ExitCodes, infoRc \in ExitCodes,
          dt \in Ticks(MainMaxClock) :
          Qcow2ToOva(qcow2, out, "vm1", convertRc, infoRc,
                     ("virtual-size" :> 1024), 512, "uuid-1", dt)
    \/ \E distro \in {"debian", "ubuntu"}, mode \in {"dhcp", "static"},
          ip_cidr \in {None, "192.168.122.50/24"},
          gateway \in {None, "192.168.122.1"} :
          NetworkCompat(distro, mode, 3, ip_cidr, gateway, NoDns, "a1b2c3")
    \/ Paths(CHOOSE l \in PathStore_all(paths) : TRUE)
    \/ Exit
    \/ MainTick

Spec == Init /\ [][Next]_vars

\* ------------------------------------------------- the conversions alone

NextConv ==
    \/ \E ova \in OvaArgs, out \in Qcow2OutArgs, archive \in MainArchives,
          convertRc \in ExitCodes, dt \in Ticks(MainMaxClock) :
          \E src \in Sources(archive) :
             OvaToQcow2(ova, out, archive, src, convertRc, dt)
    \/ \E qcow2 \in Qcow2Args, out \in OvaOutArgs, convertRc \in ExitCodes,
          infoRc \in ExitCodes, dt \in Ticks(MainMaxClock) :
          Qcow2ToOva(qcow2, out, "vm1", convertRc, infoRc,
                     ("virtual-size" :> 1024), 512, "uuid-1", dt)
    \/ Exit
    \/ MainTick

SpecConv == Init /\ [][NextConv]_vars

\* --------------------------------------------- ova_to_qcow2, any archive

ArchiveEntries == {Entry(FALSE, "a", "vmdk"), Entry(FALSE, "b", "vmdk"),
                   Entry(TRUE, "c", "vmdk"), Entry(FALSE, "d", "qcow2"),
                   Entry(FALSE, "e", "img"), Entry(FALSE, "f", "ovf")}

Archives == (SUBSET ArchiveEntries) \cup {Unreadable}

NextOva ==
    \/ \E out \in {"out.qcow2", "/img/out.qcow2"}, archive \in Archives,
          convertRc \in ExitCodes :
          \E src \in Sources(archive) :
             OvaToQcow2("in.ova", out, archive, src, convertRc, 0)
    \/ Exit

SpecOva == Init /\ [][NextOva]_vars

\* ------------------------------------------- qcow2_to_ova, any disk info

DiskInfos == {("format" :> 0), ("virtual-size" :> 0),
              ("virtual-size" :> 1024) @@ ("format" :> 0)}

NextOvaOut ==
    \/ \E out \in {"out.ova", "/img/out.ova"}, vm_name \in VmNames,
          convertRc \in ExitCodes, infoRc \in ExitCodes, info \in DiskInfos,
          vmdkSize \in {512, 768}, disk_id \in {"uuid-1", "uuid-2"} :
          Qcow2ToOva("in.qcow2", out, vm_name, convertRc, infoRc, info,
                     vmdkSize, disk_id, 0)
    \/ Exit

SpecOvaOut == Init /\ [][NextOvaOut]_vars

\* --------------------------------- add_network_compat on the hosts file

\* Hosts files of a machine the tool has not touched: none, an empty one,
\* one whose last line ends with a line break and one whose does not.
InitialHosts == {NoFile, File(<<>>),
                 File(<<TextLine("127.0.0.1 localhost"), Br>>),
                 File(<<TextLine("127.0.0.1 localhost")>>)}

Modes == {"dhcp", "static"}

Indexes == {3, 9}

InitHosts == \E h \in InitialHosts : Start(h)

NextHosts ==
    \/ \E mode \in Modes, index \in Indexes :
          NetworkCompat("debian", mode, index, None, None, NoDns, "a1b2c3")
    \/ NetworkCompat("ubuntu", "dhcp", 3, None, None, NoDns, "a1b2c3")
    \/ Exit
    \/ MainTick

SpecHosts == InitHosts /\ [][NextHosts]_vars

\* ------------------------------ add_network_compat on the netplan directory

DnsArgs == {NoDns, Dns(<< <<" ">> >>), Dns(<< <<"8">>, <<" ", "1">>, <<>> >>)}

NextNetplan ==
    \/ \E mode \in Modes, ip_cidr \in {None, "", "192.168.122.50/24"},
          gateway \in {None, "", "192.168.122.1"}, dns \in DnsArgs,
          token \in {"a1b2c3", "d4e5f6"} :
          NetworkCompat("ubuntu", mode, 3, ip_cidr, gateway, dns, token)
    \/ Exit
    \/ MainTick

SpecNetplan == Init /\ [][NextNetplan]_vars

\* ================================================================ claims

\* The value of key's latest set call in the record h, None without one.
HistValue(h, k) ==
    IF \E i \in 1..Len(h) : h[i][1] = k
    THEN h[CHOOSE i \in 1..Len(h) : h[i][1] = k][2]
    ELSE None

\* C1 (SpecStore): after any sequence of set calls, get(k) returns the value
\* of the most recent set(k, v), or None if k was never set, and the table
\* holds exactly one row per key that was ever set: a second set on a key
\* overwrites the value and adds no row.
C1_Upsert ==
    /\ \A k \in Keys : PathStore_get(paths, k) = HistValue(setOrder, k)
    /\ Cardinality(paths) = Len(setOrder)
    /\ \A k \in Keys :
          Cardinality({r \in paths : r.key = k})
             = (IF HistValue(setOrder, k) = None THEN 0 ELSE 1)
    /\ inv.op = "get" => inv.result = HistValue(setOrder, inv.key)

\* C1 witness: a set has overwritten another value of its key, beside the
\* row of another key.
C1_Witness ==
    /\ inv.op = "set"
    /\ inv.previous # None
    /\ inv.previous # inv.value
    /\ PathStore_get(paths, inv.key) = inv.value
    /\ Cardinality(paths) >= 2

\* C2 (SpecStore), as claimed: all() lists the keys with the most recently
\* set key first, also for keys set within the same second.
C2_MostRecentFirst ==
    inv.op = "all" =>
        [i \in 1..Len(inv.result) |-> inv.result[i][1]]
            = [i \in 1..Len(setOrder) |-> setOrder[i][1]]

\* The step is an invocation of a conversion command.
ConvCall == inv = Idle /\ inv'.op \in Directions

\* C3 (SpecConv), amended: a path argument that is given and not empty is
\* the path used; an omitted (or empty) one is resolved to the path the last
\* successful conversion of the same direction stored; when a path is
\* omitted and no conversion of that direction has succeeded, the invocation
\* ends with exit code 1, runs no command and leaves the table and the
\* archives as they were.  The exit code is 0 exactly when nothing is
\* raised, and 1 when a CommandError is.
C3_PathResolution ==
    [][ConvCall =>
        LET last == lastOk[inv'.op]
            inGiven == inv'.in # None /\ inv'.in # ""
            outGiven == inv'.out # None /\ inv'.out # ""
            known == last # NoConv
        IN  /\ inGiven => inv'.in_path = inv'.in
            /\ (~inGiven /\ known) => inv'.in_path = last.in
            /\ (inGiven \/ known) =>
                  /\ outGiven => inv'.out_path = inv'.out
                  /\ (~outGiven /\ known) => inv'.out_path = last.out
            /\ ((~inGiven \/ ~outGiven) /\ ~known) =>
                  /\ inv'.raised = "CommandError"
                  /\ inv'.exit = 1
                  /\ inv'.cmds = <<>>
                  /\ paths' = paths
                  /\ ovaFiles' = ovaFiles
            /\ inv'.exit = 0 <=> inv'.raised = "none"
            /\ inv'.raised = "CommandError" => inv'.exit = 1
            /\ inv'.exit \in {0, 1}]_vars

\* C3 witness: both paths omitted, resolved from the table, and the
\* conversion done.
C3_Witness ==
    /\ inv.op = "ova-to-qcow2"
    /\ inv.in = None /\ inv.out = None
    /\ inv.in_path = "/cwd/in.ova" /\ inv.out_path = "/img/out.qcow2"
    /\ inv.raised = "none"

\* C3 as claimed: every explicitly given argument is the path used, and the
\* exit code is 0 exactly when no CommandError surfaces.
C3_Original ==
    [][ConvCall =>
        LET last == lastOk[inv'.op]
            inGiven == inv'.in # None
            outGiven == inv'.out # None
            known == last # NoConv
        IN  /\ inGiven => inv'.in_path = inv'.in
            /\ (~inGiven /\ known) => inv'.in_path = last.in
            /\ (inGiven \/ known) =>
                  /\ outGiven => inv'.out_path = inv'.out
                  /\ (~outGiven /\ known) => inv'.out_path = last.out
            /\ ((~inGiven \/ ~outGiven) /\ ~known) =>
                  /\ inv'.raised = "CommandError"
                  /\ inv'.exit = 1
                  /\ inv'.cmds = <<>>
                  /\ paths' = paths
            /\ inv'.exit = 0 <=> inv'.raised # "CommandError"]_vars

\* C4 (SpecDelete): delete_vm runs "undefine" exactly once, as its last
\* command, whatever the state query and the stop command gave; it names the
\* domain, has --nvram, and has --remove-all-storage iff remove_storage; the
\* stop command is run only when the state query succeeded with a text that
\* holds "running" in any letter case, and only before undefine.
C4_DeleteVm ==
    inv.op = "delete" =>
        LET c == inv.cmds
            n == Len(c)
            args == {c[n].argv[j] : j \in 1..Len(c[n].argv)}
        IN  /\ n >= 1
            /\ c[n].argv[2] = "undefine"
            /\ Cardinality({i \in 1..n : c[i].argv[2] = "undefine"}) = 1
            /\ c[n].argv[3] = inv.name
            /\ "--nvram" \in args
            /\ "--remove-all-storage" \in args <=> inv.remove_storage
            /\ \A i \in 1..n :
                  c[i].argv[2] = "destroy" =>
                     i < n /\ inv.query.rc = 0 /\ inv.query.running

\* C4 witness: the stop command failed and undefine, with storage removal,
\* still ran and succeeded.
C4_Witness ==
    /\ inv.op = "delete"
    /\ inv.remove_storage
    /\ Len(inv.cmds) = 3
    /\ inv.cmds[2].argv[2] = "destroy" /\ inv.cmds[2].rc # 0
    /\ inv.exit = 0

\* The non-blank lines of one stream, stripped.
Diagnostics(text) == StrippedNonBlank(SplitLines(text))

\* C5 (SpecValidate), as claimed: when the validator has run, validate
\* raises nothing; the list it returns is empty iff the validator exits 0,
\* and on a nonzero exit it holds the non-blank lines of stderr, then of
\* stdout, in their order.
C5_EmptyIffValid ==
    (inv.op = "validate" /\ inv.dumpRc = 0) =>
        /\ inv.raised = "none"
        /\ inv.result = <<>> <=> inv.validator.rc = 0
        /\ inv.validator.rc # 0 =>
              inv.result = Diagnostics(inv.validator.stderr)
                           \o Diagnostics(inv.validator.stdout)

\* C6 (SpecOva), as claimed: on an archive with no .vmdk, .qcow2 or .img
\* member ova_to_qcow2 raises CommandError and runs no converter; on an
\* archive with a .vmdk member it converts a .vmdk member (a .qcow2 member
\* only when there is no .vmdk, an .img member only when there is neither)
\* to qcow2 at the requested output path.
C6_DiskSelection ==
    (inv.op = "ova-to-qcow2" /\ inv.archive # Unreadable) =>
        LET has(ext) == \E e \in inv.archive : e.ext = ext
            want == IF has("vmdk") THEN "vmdk"
                    ELSE IF has("qcow2") THEN "qcow2" ELSE "img"
        IN  IF ~has("vmdk") /\ ~has("qcow2") /\ ~has("img")
            THEN inv.raised = "CommandError" /\ inv.cmds = <<>>
            ELSE /\ Len(inv.cmds) = 1
                 /\ inv.cmds[1].argv[4] = "qcow2"
                 /\ inv.cmds[1].argv[5] \in inv.archive
                 /\ inv.cmds[1].argv[5].ext = want
                 /\ inv.cmds[1].argv[6] = inv.out_path

\* C7 (SpecOvaOut): every archive written has exactly two members, first
\* the descriptor <name>.ovf and then the disk <name>.vmdk, and the
\* descriptor's one file reference names that disk; the archive a successful
\* qcow2_to_ova leaves is named after its logical name and declares the
\* virtual-size the info query gave, 0 when it gave none.
C7_Package ==
    /\ \A p \in DOMAIN ovaFiles :
          LET t == ovaFiles[p] IN
          /\ Len(t) = 2
          /\ t[1].name.ext = "ovf"
          /\ t[2].name.ext = "vmdk"
          /\ t[1].name.stem = t[2].name.stem
          /\ Len(t[1].content.files) = 1
          /\ t[1].content.files[1].href = t[2].name
          /\ Len(t[1].content.disks) = 1
    /\ (inv.op = "qcow2-to-ova" /\ inv.raised = "none") =>
          /\ Resolve(inv.out_path) \in DOMAIN ovaFiles
          /\ LET t == ovaFiles[Resolve(inv.out_path)] IN
             /\ t[1].name = FileName(inv.name, "ovf")
             /\ t[2].name = FileName(inv.name, "vmdk")
             /\ t[1].content.disks[1].capacity
                   = (IF "virtual-size" \in DOMAIN inv.info
                      THEN inv.info["virtual-size"] ELSE 0)

\* C7 witness: a second archive written, from a disk whose info has no
\* virtual-size.
C7_Witness ==
    /\ inv.op = "qcow2-to-ova" /\ inv.raised = "none"
    /\ "virtual-size" \notin DOMAIN inv.info
    /\ Cardinality(DOMAIN ovaFiles) = 2

\* How often the block stands in the text.
Count(snippet, text) ==
    Cardinality({i \in 0..(Len(text) - Len(snippet)) :
                    SubSeq(text, i + 1, i + Len(snippet)) = snippet})

DebianCall == inv = Idle /\ inv'.op = "network-compat" /\ inv'.distro = "debian"

\* C8 (SpecHosts): the hosts file never holds a block twice; after a call
\* for (debian, mode, index) it holds that block exactly once, and keeps it
\* through every later call; a call whose block the file already holds
\* leaves the file as it is and returns the hosts file path.
C8_HostsIdempotent ==
    /\ [](/\ \A m \in Modes, i \in Indexes : Count(Snippet(m, i), hosts.text) <= 1
          /\ (inv.op = "network-compat" /\ inv.distro = "debian") =>
                /\ hosts.exists
                /\ Count(Snippet(inv.mode, inv.index), hosts.text) = 1
                /\ inv.result = HostsPath)
    /\ [][/\ \A m \in Modes, i \in Indexes :
               Count(Snippet(m, i), hosts.text) = 1 =>
                  Count(Snippet(m, i), hosts'.text) = 1
          /\ (DebianCall /\ Count(Snippet(inv'.mode, inv'.index), hosts.text) = 1)
                => (hosts' = hosts /\ inv'.result = HostsPath)]_vars

\* C8 witness: a repeated call, after a call for another block was made in
\* between.
C8_Witness ==
    /\ inv.op = "network-compat" /\ inv.distro = "debian"
    /\ Len(hosts.text) >= 2 * (Len(Snippet(inv.mode, inv.index)) + 1)
    /\ SubSeq(hosts.text, Len(hosts.text) - 7, Len(hosts.text))
          # Snippet(inv.mode, inv.index)
    /\ \A r \in paths : r.updated_at < clock

\* C9 (SpecNetplan): for the netplan family in static mode, a call without
\* the IP/CIDR or without the gateway raises CommandError (exit code 1) and
\* leaves the files of the netplan directory, the hosts file and the table
\* as they were.
C9_StaticMissing ==
    [][(/\ inv = Idle
        /\ inv'.op = "network-compat"
        /\ inv'.distro = "ubuntu"
        /\ inv'.mode = "static"
        /\ inv'.ip_cidr \in {None, ""} \/ inv'.gateway \in {None, ""})
       => /\ inv'.raised = "CommandError"
          /\ inv'.exit = 1
          /\ netplan'.files = netplan.files
          /\ hosts' = hosts
          /\ paths' = paths]_vars

\* C9 witness: static mode with the IP/CIDR but no gateway is refused, in a
\* directory that already holds a file.
C9_Witness ==
    /\ inv.op = "network-compat" /\ inv.distro = "ubuntu"
    /\ inv.mode = "static"
    /\ inv.ip_cidr = "192.168.122.50/24" /\ inv.gateway = None
    /\ inv.raised = "CommandError"
    /\ DOMAIN netplan.files # {}
    /\ paths # {}

\* C10 (Spec): the table changes only in an invocation of ova-to-qcow2,
\* qcow2-to-ova or network-compat that raises nothing (exit code 0): list,
\* delete, os, validate and paths never change it, a conversion or patch
\* that ends in CommandError leaves every row as it was, and no step removes
\* a key.
C10_StoreFrame ==
    [][/\ paths' # paths =>
             /\ inv = Idle
             /\ inv'.op \in {"ova-to-qcow2", "qcow2-to-ova", "network-compat"}
             /\ inv'.raised = "none"
             /\ inv'.exit = 0
       /\ \A r \in paths : HasKey(paths', r.key)]_vars

\* C10 witness: a conversion whose converter failed, with rows in the table.
C10_Witness ==
    /\ inv.op = "ova-to-qcow2"
    /\ inv.raised = "CommandError"
    /\ inv.cmds # <<>>
    /\ Cardinality(paths) >= 4

====
